---- MODULE Spec2Model ----
(***************************************************************************)
(* Model of ai_wealth_transfer_app.py: the estate-tax engine               *)
(* (calculate_estate_tax and the three strategy simulators) and the        *)
(* Streamlit page script that drives it.                                   *)
(*                                                                         *)
(* Units.  Amounts of the program are in wan (the form supplies integers). *)
(* calculate_estate_tax also accepts fractional estates, so its            *)
(* total_assets parameter is carried in hundredths of a wan (Scale);       *)
(* the tax accumulated by the bracket walk is carried in thousandths of a  *)
(* wan (rates are per mille), so that round(tax_due, 2) and int(...) of    *)
(* line 59 are real conversions.  premium_ratio is carried in tenths       *)
(* (the slider's step is 0.1).                                             *)
(*                                                                         *)
(* Dictionary keys of the program are Chinese strings; they are written    *)
(* here in pinyin:                                                         *)
(*   meiyou_guihua        = 沒有規劃          zong_zichan      = 總資產    *)
(*   yugu_yichanshui      = 預估遺產稅        jiaren_qude = 家人總共取得   *)
(*   baodan_wei_keshui    = 有規劃保單 (未被實質課稅)                      *)
(*   baodan_bei_keshui    = 有規劃保單 (被實質課稅)                        *)
(*   guihua_xiaoguo       = 規劃效果          tiqian_zengyu_hou = 提前贈與後*)
(*   zong_zengyu_jine     = 總贈與金額        zengyu_nianshu   = 贈與年數  *)
(*   jiao_zengjia         = 較沒有規劃增加    jiesheng_baifenbi = 節省百分比*)
(*   fensan_peizhi_hou    = 分散配置後        yichan_zonge     = 遺產總額  *)
(* and the strategy radio's options:                                       *)
(*   baodan_celue = 保單規劃策略, zengyu_celue = 提前贈與策略,             *)
(*   fensan_celue = 分散配置策略, "" = no strategy chosen.                 *)
(***************************************************************************)
EXTENDS Integers, Sequences, FiniteSets, TLC

VARIABLES
    total_assets_input,     \* st.number_input, line 185
    has_spouse,             \* st.checkbox, line 190
    adult_children_input,   \* line 192
    parents_input,          \* line 194
    disabled_people_input,  \* line 197
    other_dependents_input, \* line 199
    strategy,               \* st.radio, line 241
    premium,                \* keyed widget insurance_premium, line 250 (0 while not rendered)
    premium_ratio,          \* keyed widget insurance_ratio, in tenths, line 252 (0 while not rendered)
    years,                  \* keyed widget gift_years, line 280 (0 while not rendered)
    tax_result,             \* (taxable_amount, tax_due, total_deductions) of line 202
    strategy_results,       \* the simulator's record the chosen branch renders
    rendered,               \* outcome of the strategy branch: "ok" or the exception raised
    call                    \* a direct call of an engine function: [fn, args, ret]

formVars == <<total_assets_input, has_spouse, adult_children_input, parents_input,
              disabled_people_input, other_dependents_input>>
strategyVars == <<strategy, premium, premium_ratio, years>>
pageVars == <<formVars, strategyVars, tax_result, strategy_results, rendered>>
vars == <<pageVars, call>>

-----------------------------------------------------------------------------
(* Constants, lines 16-22 *)
EXEMPT_AMOUNT == 1333
FUNERAL_EXPENSE == 138
SPOUSE_DEDUCTION_VALUE == 553
ADULT_CHILD_DEDUCTION == 56
PARENTS_DEDUCTION == 138
DISABLED_DEDUCTION == 693
OTHER_DEPENDENTS_DEDUCTION == 56

(* Hundredths of a wan per wan: the two decimals of round(tax_due, 2). *)
Scale == 100
(* Thousandths per hundredth: the accumulator's extra digit. *)
Fine == 10

(* TAX_BRACKETS, lines 25-29: (upper bound, rate); rate in per mille,      *)
(* float('inf') as unbounded = TRUE.                                       *)
TAX_BRACKETS ==
    << [bracket |-> 5621,  unbounded |-> FALSE, rate |-> 100],
       [bracket |-> 11242, unbounded |-> FALSE, rate |-> 150],
       [bracket |-> 0,     unbounded |-> TRUE,  rate |-> 200] >>

-----------------------------------------------------------------------------
(* Python built-ins used by the program *)

Max(a, b) == IF a >= b THEN a ELSE b
Min(a, b) == IF a <= b THEN a ELSE b

(* min(taxable_amount, bracket) where bracket may be float('inf') *)
MinBracket(t, b) == IF b.unbounded THEN t ELSE Min(t, b.bracket)

(* taxable_amount > previous_bracket where previous_bracket may be inf *)
Above(t, prev) == IF prev.unbounded THEN FALSE ELSE t > prev.bracket

(* int(x) for x = n/d, d > 0: truncation toward zero *)
PyInt(n, d) == IF n >= 0 THEN n \div d ELSE -((-n) \div d)

(* round(x) for x = n/d exactly representable, d > 0: nearest, ties to even *)
PyRound(n, d) ==
    LET q == n \div d
        r == n % d
    IN  IF 2 * r > d \/ (2 * r = d /\ q % 2 = 1) THEN q + 1 ELSE q

(* round(x) for x = n/d where x is a float product that need not be exact: *)
(* away from a tie the nearest integer; at a mathematical tie the float    *)
(* lies on either side, so the result is the lower or the upper neighbour *)
(* (tie_up), e.g. round(55 * 1.1) = 61 and round(25 * 2.3) = 57.           *)
PyRoundFloat(n, d, tie_up) ==
    LET q == n \div d
        r == n % d
    IN  IF 2 * r > d \/ (2 * r = d /\ tie_up) THEN q + 1 ELSE q

-----------------------------------------------------------------------------
(* calculate_estate_tax, lines 35-59 *)

(* deductions without the funeral expense of line 42 *)
deductions_no_funeral(spouse_deduction, adult_children, other_dependents, disabled_people, parents) ==
    spouse_deduction
    + (disabled_people * DISABLED_DEDUCTION)
    + (adult_children * ADULT_CHILD_DEDUCTION)
    + (other_dependents * OTHER_DEPENDENTS_DEDUCTION)
    + (parents * PARENTS_DEDUCTION)

(* lines 40-47 *)
deductions(spouse_deduction, adult_children, other_dependents, disabled_people, parents) ==
    spouse_deduction
    + FUNERAL_EXPENSE
    + (disabled_people * DISABLED_DEDUCTION)
    + (adult_children * ADULT_CHILD_DEDUCTION)
    + (other_dependents * OTHER_DEPENDENTS_DEDUCTION)
    + (parents * PARENTS_DEDUCTION)

(* bracket_step without "- previous_bracket" on line 56: the lower         *)
(* brackets' portion is taxed again at each higher rate.                   *)
bracket_step_double_count(taxable_amount, st, b) ==
    IF Above(taxable_amount, st.previous_bracket)
    THEN [tax_due |-> st.tax_due + MinBracket(taxable_amount, b) * b.rate,
          previous_bracket |-> b]
    ELSE st

(* bracket_step with "tax_due =" for "tax_due +=" on line 57 *)
bracket_step_overwrite(taxable_amount, st, b) ==
    IF Above(taxable_amount, st.previous_bracket)
    THEN [tax_due |-> (MinBracket(taxable_amount, b) - st.previous_bracket.bracket) * b.rate,
          previous_bracket |-> b]
    ELSE st

(* One iteration of the loop of lines 54-58 on the loop state              *)
(* [tax_due (thousandths), previous_bracket].                              *)
bracket_step(taxable_amount, st, b) ==
    IF Above(taxable_amount, st.previous_bracket)
    THEN [tax_due |-> st.tax_due
                      + (MinBracket(taxable_amount, b) - st.previous_bracket.bracket) * b.rate,
          previous_bracket |-> b]
    ELSE st

(* The loop of lines 52-58 over brackets i..Len(TAX_BRACKETS). *)
RECURSIVE bracket_loop(_, _, _)
bracket_loop(taxable_amount, st, i) ==
    IF i > Len(TAX_BRACKETS) THEN st
    ELSE bracket_loop(taxable_amount, bracket_step(taxable_amount, st, TAX_BRACKETS[i]), i + 1)

(* tax_due as accumulated when the loop ends (thousandths of a wan);       *)
(* lines 52-53 initialise tax_due = 0, previous_bracket = 0.               *)
bracket_walk(taxable_amount) ==
    bracket_loop(taxable_amount,
                 [tax_due |-> 0,
                  previous_bracket |-> [bracket |-> 0, unbounded |-> FALSE, rate |-> 0]],
                 1).tax_due

(* line 59: int(round(tax_due, 2)) of an accumulator in thousandths *)
round_tax_due(acc) == PyInt(PyRound(acc, Fine), Scale)

(* total_assets in hundredths of a wan; the rest as in the source.         *)
calculate_estate_tax(total_assets, spouse_deduction, adult_children, other_dependents, disabled_people, parents) ==
    LET ded == deductions(spouse_deduction, adult_children, other_dependents,
                          disabled_people, parents)
        taxable_amount == PyInt(Max(0, total_assets - Scale * EXEMPT_AMOUNT - Scale * ded), Scale)
    IN  IF total_assets < Scale * (EXEMPT_AMOUNT + ded)
        THEN [taxable_amount |-> 0, tax_due |-> 0, deductions |-> ded]
        ELSE [taxable_amount |-> taxable_amount,
              tax_due |-> round_tax_due(bracket_walk(taxable_amount)),
              deductions |-> ded]

-----------------------------------------------------------------------------
(* Strategy simulators, lines 72-155.  total_assets and premium are whole  *)
(* wan, as the form supplies them.                                         *)

(* tax_due of calculate_estate_tax on an estate of x whole wan *)
tax_of(x, spouse_deduction, adult_children, other_dependents, disabled_people, parents) ==
    calculate_estate_tax(Scale * x, spouse_deduction, adult_children, other_dependents,
                         disabled_people, parents).tax_due

(* line 77 with int(...) alone, without round(...) *)
claim_amount_truncated(premium_, premium_ratio_, tie_up) ==
    PyInt(premium_ * premium_ratio_, 10)

(* line 77: int(round(premium * premium_ratio)); premium_ratio in tenths.  *)
(* tie_up is the side on which the float product falls at a tie.           *)
claim_amount(premium_, premium_ratio_, tie_up) ==
    PyInt(PyRoundFloat(premium_ * premium_ratio_, 10, tie_up), 1)

(* lines 72-106 *)
simulate_insurance_strategy(total_assets, spouse_deduction, adult_children, other_dependents, disabled_people, parents, premium_ratio_, premium_, tie_up) ==
    LET tax_no_insurance == tax_of(total_assets, spouse_deduction, adult_children,
                                   other_dependents, disabled_people, parents)
        net_no_insurance == total_assets - tax_no_insurance
        claim == claim_amount(premium_, premium_ratio_, tie_up)
        new_total_assets == total_assets - premium_
        tax_new == tax_of(new_total_assets, spouse_deduction, adult_children,
                          other_dependents, disabled_people, parents)
        net_not_taxed == PyInt(PyRound((new_total_assets - tax_new) + claim, 1), 1)
        effect_not_taxed == net_not_taxed - net_no_insurance
        effective_estate == total_assets - premium_ + claim
        tax_effective == tax_of(effective_estate, spouse_deduction, adult_children,
                                other_dependents, disabled_people, parents)
        net_taxed == PyInt(PyRound(effective_estate - tax_effective, 1), 1)
        effect_taxed == net_taxed - net_no_insurance
    IN  [meiyou_guihua |->
            [zong_zichan |-> total_assets,
             yugu_yichanshui |-> tax_no_insurance,
             jiaren_qude |-> net_no_insurance],
         baodan_wei_keshui |->
            [yugu_yichanshui |-> tax_new,
             jiaren_qude |-> net_not_taxed,
             guihua_xiaoguo |-> effect_not_taxed],
         baodan_bei_keshui |->
            [yugu_yichanshui |-> tax_effective,
             jiaren_qude |-> net_taxed,
             guihua_xiaoguo |-> effect_taxed]]

(* line 109 *)
annual_gift_exemption == 244

(* line 110 counting one year too many *)
total_gift_of_one_more(years_) == (years_ + 1) * annual_gift_exemption

(* line 110 *)
total_gift_of(years_) == years_ * annual_gift_exemption

(* lines 108-137 *)
simulate_gift_strategy(total_assets, spouse_deduction, adult_children, other_dependents, disabled_people, parents, years_) ==
    LET total_gift == total_gift_of(years_)
        simulated_total_assets == Max(total_assets - total_gift, 0)
        tax_sim == tax_of(simulated_total_assets, spouse_deduction, adult_children,
                          other_dependents, disabled_people, parents)
        net_after == PyInt(PyRound((simulated_total_assets - tax_sim) + total_gift, 1), 1)
        tax_original == tax_of(total_assets, spouse_deduction, adult_children,
                               other_dependents, disabled_people, parents)
        net_original == total_assets - tax_original
        effect == net_after - net_original
    IN  [meiyou_guihua |->
            [zong_zichan |-> total_assets,
             yugu_yichanshui |-> tax_original,
             jiaren_qude |-> net_original],
         tiqian_zengyu_hou |->
            [zong_zichan |-> simulated_total_assets,
             yugu_yichanshui |-> tax_sim,
             zong_zengyu_jine |-> total_gift,
             jiaren_qude |-> net_after,
             zengyu_nianshu |-> years_],
         guihua_xiaoguo |->
            [jiao_zengjia |-> effect]]

(* A call's outcome: the value returned, or the exception raised. *)
Return(v) == [raised |-> "none", value |-> v]
Raise(e) == [raised |-> e, value |-> 0]

(* round((n / d) * 100, 2) in hundredths of a percent; n / d raises when d is 0 *)
percent_of(n, d) ==
    IF d = 0 THEN Raise("ZeroDivisionError") ELSE Return(PyRound(n * 100 * Scale, d))

(* line 143 without its condition: the division is always evaluated *)
percent_guard_absent(tax_due) == TRUE

(* line 143: the condition of "... if tax_due else 0" *)
percent_guard(tax_due) == tax_due # 0

(* lines 139-155; tax_factor = 0.90 is 9/10.  The outcome is Return(dict) *)
(* or the exception of the division of line 143.                          *)
simulate_diversified_strategy(tax_due) ==
    LET simulated_tax_due == PyInt(PyRound(tax_due * 9, 10), 1)
        saved == tax_due - simulated_tax_due
        percent_saved == IF percent_guard(tax_due) THEN percent_of(saved, tax_due) ELSE Return(0)
    IN  IF percent_saved.raised # "none" THEN percent_saved
        ELSE Return(
            [meiyou_guihua |-> [yugu_yichanshui |-> tax_due],
             fensan_peizhi_hou |-> [yugu_yichanshui |-> simulated_tax_due],
             guihua_xiaoguo |-> [jiao_zengjia |-> saved,
                                 jiesheng_baifenbi |-> percent_saved.value]])

-----------------------------------------------------------------------------
(* The page script, lines 180-300: one run of the script on the widgets'   *)
(* current values.  The case-study section after line 302 reads the same   *)
(* inputs and is not modelled.                                             *)

(* Widget ranges and defaults *)
MIN_TOTAL_ASSETS == 1000        \* line 185
MAX_TOTAL_ASSETS == 100000      \* line 185
DEFAULT_TOTAL_ASSETS == 5000    \* line 186
MAX_ADULT_CHILDREN == 10        \* line 192
MAX_PARENTS == 2                \* line 194
MAX_OTHER_DEPENDENTS == 5       \* line 199
MAX_PREMIUM == 100000           \* line 250
MIN_RATIO == 10                 \* line 252, tenths
MAX_RATIO == 30                 \* line 252, tenths
DEFAULT_RATIO == 13             \* line 253, tenths
MIN_YEARS == 1                  \* line 280
MAX_YEARS == 10                 \* line 280
DEFAULT_YEARS == 3              \* line 280

(* Values the model tries for each input *)
ChildrenBound == 2
OtherBound == 1
AssetSpread == 1

ChildrenValues == 0..Min(ChildrenBound, MAX_ADULT_CHILDREN)
ParentsValues == 0..MAX_PARENTS
OtherValues == 0..Min(OtherBound, MAX_OTHER_DEPENDENTS)
PageAssets == {a \in {1000, 5000, 12714, 100000} :
                 a >= MIN_TOTAL_ASSETS /\ a <= MAX_TOTAL_ASSETS}
PagePremiums == {p \in {0, 55} : p >= 0 /\ p <= MAX_PREMIUM}
PageRatios == {r \in {11, 30} : r >= MIN_RATIO /\ r <= MAX_RATIO}
PageYears == {y \in {5, 10} : y >= MIN_YEARS /\ y <= MAX_YEARS}
Strategies == {"", "baodan_celue", "zengyu_celue", "fensan_celue"}

(* line 191 *)
spouse_deduction_of(has_spouse_) == IF has_spouse_ THEN SPOUSE_DEDUCTION_VALUE ELSE 0

(* line 196 *)
max_disabled(has_spouse_, adult_children, parents) ==
    (IF has_spouse_ THEN 1 ELSE 0) + adult_children + parents

(* the entered disabled count kept whatever the new max_value is *)
disabled_after_kept(old_max, new_max, entered) == entered

(* lines 197-198: the disabled-count number_input has no key, so its       *)
(* identity is its parameters; a run with another max_value creates a new  *)
(* widget, which returns value=0, and otherwise the entered value is kept. *)
disabled_after(old_max, new_max, entered) == IF new_max = old_max THEN entered ELSE 0

(* line 251 (and 318): int(math.ceil((tax_due / 1.3) / 100) * 100) *)
default_premium(tax_due) == (-((-(tax_due * 10)) \div (13 * 100))) * 100

(* lines 234-238 *)
original_data(total_assets, tax_due) ==
    [zong_zichan |-> total_assets,
     yugu_yichanshui |-> tax_due,
     jiaren_qude |-> total_assets - tax_due]

(* Nothing to render: no strategy chosen, or the simulator raised. *)
NoResults == [unset |-> TRUE]

(* The subscripts results[k1][k2] each strategy branch evaluates:          *)
(* lines 265-273, 284-291 and 294-300.                                     *)
render_reads(strategy_) ==
    CASE strategy_ = "baodan_celue" ->
            {<<"baodan_wei_keshui", "yugu_yichanshui">>,
             <<"baodan_wei_keshui", "jiaren_qude">>,
             <<"baodan_wei_keshui", "guihua_xiaoguo">>,
             <<"baodan_bei_keshui", "yugu_yichanshui">>,
             <<"baodan_bei_keshui", "jiaren_qude">>,
             <<"baodan_bei_keshui", "guihua_xiaoguo">>}
      [] strategy_ = "zengyu_celue" ->
            {<<"tiqian_zengyu_hou", "zengyu_nianshu">>,
             <<"tiqian_zengyu_hou", "yichan_zonge">>,
             <<"tiqian_zengyu_hou", "yugu_yichanshui">>,
             <<"tiqian_zengyu_hou", "zong_zengyu_jine">>,
             <<"tiqian_zengyu_hou", "jiaren_qude">>,
             <<"guihua_xiaoguo", "jiao_zengjia">>}
      [] strategy_ = "fensan_celue" ->
            {<<"meiyou_guihua", "yugu_yichanshui">>,
             <<"fensan_peizhi_hou", "yugu_yichanshui">>,
             <<"guihua_xiaoguo", "jiao_zengjia">>}
      [] OTHER -> {}

(* A dict subscript d[k1][k2] raises KeyError when a key is missing. *)
render(strategy_, results) ==
    IF \A path \in render_reads(strategy_) :
          /\ path[1] \in DOMAIN results
          /\ path[2] \in DOMAIN results[path[1]]
    THEN "ok"
    ELSE "KeyError"

(* Lines 185-300 on the given widget values. *)
Rerun(ta, sp, ch, pa, di, ot, st, pr, ra, ye, tie_up) ==
    LET sd == spouse_deduction_of(sp)
        res == calculate_estate_tax(Scale * ta, sd, ch, ot, di, pa)
        div == simulate_diversified_strategy(res.tax_due)
        results ==
            CASE st = "baodan_celue" ->
                    simulate_insurance_strategy(ta, sd, ch, ot, di, pa, ra, pr, tie_up)
              [] st = "zengyu_celue" ->
                    simulate_gift_strategy(ta, sd, ch, ot, di, pa, ye)
              [] st = "fensan_celue" /\ div.raised = "none" -> div.value
              [] OTHER -> NoResults
    IN  /\ total_assets_input' = ta
        /\ has_spouse' = sp
        /\ adult_children_input' = ch
        /\ parents_input' = pa
        /\ disabled_people_input' = di
        /\ other_dependents_input' = ot
        /\ strategy' = st
        /\ premium' = pr
        /\ premium_ratio' = ra
        /\ years' = ye
        /\ tax_result' = res
        /\ strategy_results' = results
        /\ rendered' = IF st = "fensan_celue" /\ div.raised # "none"
                       THEN div.raised
                       ELSE render(st, results)
        /\ UNCHANGED call

(* The sides on which the float product premium * premium_ratio can fall   *)
(* when it is rounded: both at a mathematical tie, irrelevant otherwise.   *)
TieSides(pr, ra) == IF (pr * ra) % 10 = 5 THEN BOOLEAN ELSE {FALSE}

(* lines 250-251: the premium number_input's value= follows tax_due; a run *)
(* whose default differs creates the widget anew (it returns the default), *)
(* and otherwise the entered premium is kept.                              *)
premium_after(old_tax_due, new_tax_due, entered) ==
    IF default_premium(new_tax_due) = default_premium(old_tax_due)
    THEN entered
    ELSE default_premium(new_tax_due)

(* A run after an edit of the form. *)
RerunForm(ta, sp, ch, pa, di, ot) ==
    LET tax_due == calculate_estate_tax(Scale * ta, spouse_deduction_of(sp), ch, ot, di, pa).tax_due
        pr == IF strategy = "baodan_celue"
              THEN premium_after(tax_result.tax_due, tax_due, premium)
              ELSE 0
    IN  \E tie_up \in TieSides(pr, premium_ratio) :
            Rerun(ta, sp, ch, pa, di, ot, strategy, pr, premium_ratio, years, tie_up)

SetTotalAssets(a) ==
    RerunForm(a, has_spouse, adult_children_input, parents_input,
              disabled_people_input, other_dependents_input)

SetSpouse(b) ==
    RerunForm(total_assets_input, b, adult_children_input, parents_input,
              disabled_after(max_disabled(has_spouse, adult_children_input, parents_input),
                             max_disabled(b, adult_children_input, parents_input),
                             disabled_people_input),
              other_dependents_input)

SetChildren(n) ==
    RerunForm(total_assets_input, has_spouse, n, parents_input,
              disabled_after(max_disabled(has_spouse, adult_children_input, parents_input),
                             max_disabled(has_spouse, n, parents_input),
                             disabled_people_input),
              other_dependents_input)

SetParents(n) ==
    RerunForm(total_assets_input, has_spouse, adult_children_input, n,
              disabled_after(max_disabled(has_spouse, adult_children_input, parents_input),
                             max_disabled(has_spouse, adult_children_input, n),
                             disabled_people_input),
              other_dependents_input)

SetDisabled(d) ==
    /\ d <= max_disabled(has_spouse, adult_children_input, parents_input)
    /\ RerunForm(total_assets_input, has_spouse, adult_children_input, parents_input,
                 d, other_dependents_input)

SetOther(n) ==
    RerunForm(total_assets_input, has_spouse, adult_children_input, parents_input,
              disabled_people_input, n)

(* Choosing a strategy: the widgets of the branch left are dropped, those  *)
(* of the branch entered start at their defaults.                          *)
SelectStrategy(s) ==
    /\ s # strategy
    /\ \E tie_up \in TieSides(default_premium(tax_result.tax_due), DEFAULT_RATIO) :
         Rerun(total_assets_input, has_spouse, adult_children_input, parents_input,
               disabled_people_input, other_dependents_input, s,
               IF s = "baodan_celue" THEN default_premium(tax_result.tax_due) ELSE 0,
               IF s = "baodan_celue" THEN DEFAULT_RATIO ELSE 0,
               IF s = "zengyu_celue" THEN DEFAULT_YEARS ELSE 0,
               tie_up)

SetPremium(p) ==
    /\ strategy = "baodan_celue"
    /\ \E tie_up \in TieSides(p, premium_ratio) :
         Rerun(total_assets_input, has_spouse, adult_children_input, parents_input,
               disabled_people_input, other_dependents_input, strategy,
               p, premium_ratio, years, tie_up)

SetRatio(r) ==
    /\ strategy = "baodan_celue"
    /\ \E tie_up \in TieSides(premium, r) :
         Rerun(total_assets_input, has_spouse, adult_children_input, parents_input,
               disabled_people_input, other_dependents_input, strategy,
               premium, r, years, tie_up)

SetYears(y) ==
    /\ strategy = "zengyu_celue"
    /\ Rerun(total_assets_input, has_spouse, adult_children_input, parents_input,
             disabled_people_input, other_dependents_input, strategy,
             premium, premium_ratio, y, FALSE)

NoCall == [fn |-> "none"]

Init ==
    /\ total_assets_input = DEFAULT_TOTAL_ASSETS
    /\ has_spouse = FALSE
    /\ adult_children_input = 0
    /\ parents_input = 0
    /\ disabled_people_input = 0
    /\ other_dependents_input = 0
    /\ strategy = ""
    /\ premium = 0
    /\ premium_ratio = 0
    /\ years = 0
    /\ tax_result = calculate_estate_tax(Scale * DEFAULT_TOTAL_ASSETS, 0, 0, 0, 0, 0)
    /\ strategy_results = NoResults
    /\ rendered = "ok"
    /\ call = NoCall

Next ==
    \/ \E a \in PageAssets : SetTotalAssets(a)
    \/ \E b \in BOOLEAN : SetSpouse(b)
    \/ \E n \in ChildrenValues : SetChildren(n)
    \/ \E n \in ParentsValues : SetParents(n)
    \/ \E d \in 0..(1 + MAX_ADULT_CHILDREN + MAX_PARENTS + 1) : SetDisabled(d)
    \/ \E n \in OtherValues : SetOther(n)
    \/ \E s \in Strategies : SelectStrategy(s)
    \/ \E p \in PagePremiums : SetPremium(p)
    \/ \E r \in PageRatios : SetRatio(r)
    \/ \E y \in PageYears : SetYears(y)

Spec == Init /\ [][Next]_vars

-----------------------------------------------------------------------------
(* Direct calls of the engine's functions, one call per behaviour, on      *)
(* inputs the page cannot supply as well (fractional or small estates,     *)
(* years = 0, any premium and ratio).                                      *)

(* Family inputs within the form's ranges, disabled within its cap. *)
Families ==
    {f \in [spouse_deduction : {0, SPOUSE_DEDUCTION_VALUE},
            adult_children : ChildrenValues,
            other_dependents : OtherValues,
            disabled_people : 0..(1 + ChildrenBound + MAX_PARENTS),
            parents : ParentsValues] :
        f.disabled_people <= max_disabled(f.spouse_deduction # 0, f.adult_children, f.parents)}
    \cup {[spouse_deduction |-> SPOUSE_DEDUCTION_VALUE,
           adult_children |-> MAX_ADULT_CHILDREN,
           other_dependents |-> MAX_OTHER_DEPENDENTS,
           disabled_people |-> 1 + MAX_ADULT_CHILDREN + MAX_PARENTS,
           parents |-> MAX_PARENTS]}

DeductionsOf(f) ==
    deductions(f.spouse_deduction, f.adult_children, f.other_dependents,
               f.disabled_people, f.parents)

(* Taxable amounts at and around the bracket bounds *)
BoundaryTaxable == {b + d : b \in {0, 5621, 11242}, d \in (-AssetSpread)..AssetSpread}

(* Estates in hundredths of a wan: fixed ones, and the ones that put the   *)
(* family's taxable amount at a bracket bound, with fractional parts.      *)
EstatesFor(f) ==
    {Scale * a : a \in {0, 1000, 5000, 30000, 100000}}
    \cup {e \in {Scale * (EXEMPT_AMOUNT + DeductionsOf(f) + t) + c :
                    t \in BoundaryTaxable, c \in {0, 1, 99}} : e >= 0}

(* Whole estates for the simulators *)
WholeEstates == {0, 1000, 1471, 5000, 7093, 12714, 30000, 100000}
CallPremiums == {0, 5, 7, 55, 300, 5000, 100000}
CallRatios == {10, 11, 13, 15, 23, 30}
CallYears == 0..MAX_YEARS
CallTaxDue == (0..25) \cup {130, 352, 4729, 18862}

CallCalculateEstateTax ==
    /\ call = NoCall
    /\ \E f \in Families : \E e \in EstatesFor(f) :
         call' = [fn |-> "calculate_estate_tax",
                  total_assets |-> e,
                  family |-> f,
                  ret |-> calculate_estate_tax(e, f.spouse_deduction, f.adult_children,
                                               f.other_dependents, f.disabled_people, f.parents)]
    /\ UNCHANGED pageVars

CallSimulateInsurance ==
    /\ call = NoCall
    /\ \E f \in Families, a \in WholeEstates, p \in CallPremiums, r \in CallRatios :
         \E tie_up \in TieSides(p, r) :
            call' = [fn |-> "simulate_insurance_strategy",
                     total_assets |-> a,
                     family |-> f,
                     premium |-> p,
                     premium_ratio |-> r,
                     ret |-> simulate_insurance_strategy(
                                a, f.spouse_deduction, f.adult_children, f.other_dependents,
                                f.disabled_people, f.parents, r, p, tie_up)]
    /\ UNCHANGED pageVars

CallSimulateGift ==
    /\ call = NoCall
    /\ \E f \in Families, a \in WholeEstates, y \in CallYears :
         call' = [fn |-> "simulate_gift_strategy",
                  total_assets |-> a,
                  family |-> f,
                  years |-> y,
                  ret |-> simulate_gift_strategy(
                             a, f.spouse_deduction, f.adult_children, f.other_dependents,
                             f.disabled_people, f.parents, y)]
    /\ UNCHANGED pageVars

CallSimulateDiversified ==
    /\ call = NoCall
    /\ \E t \in CallTaxDue :
         call' = [fn |-> "simulate_diversified_strategy",
                  tax_due |-> t,
                  ret |-> simulate_diversified_strategy(t)]
    /\ UNCHANGED pageVars

NextEngine ==
    \/ CallCalculateEstateTax
    \/ CallSimulateInsurance
    \/ CallSimulateGift
    \/ CallSimulateDiversified

SpecEngine == Init /\ [][NextEngine]_vars

-----------------------------------------------------------------------------
(* Properties *)

IsCall(fn) == call.fn = fn

(* The progressive schedule in one expression, in thousandths of a wan:    *)
(* 0.10*min(T,5621) + 0.15*max(0, min(T,11242) - 5621) + 0.20*max(0, T - 11242) *)
DirectTax(T) ==
    100 * Min(T, 5621) + 150 * Max(0, Min(T, 11242) - 5621) + 200 * Max(0, T - 11242)

(* spouse_deduction + 138 + 693*disabled + 56*children + 56*other + 138*parents *)
StatedDeductions(f) ==
    f.spouse_deduction + 138 + 693 * f.disabled_people + 56 * f.adult_children
    + 56 * f.other_dependents + 138 * f.parents

(* C1: for every total_assets >= 0 and valid family input, the             *)
(* taxable_amount calculate_estate_tax returns is                          *)
(* max(0, total_assets - 1333 - deductions) truncated to an integer, with  *)
(* deductions as stated; it is 0 when total_assets < 1333 + deductions and *)
(* never negative.                                                         *)
C1_TaxableAmount ==
    IsCall("calculate_estate_tax") =>
        LET over == call.total_assets - 100 * (1333 + StatedDeductions(call.family))
        IN  /\ call.ret.deductions = StatedDeductions(call.family)
            /\ call.ret.taxable_amount = (IF over > 0 THEN over \div 100 ELSE 0)
            /\ call.ret.taxable_amount >= 0
            /\ (over < 0 => call.ret.taxable_amount = 0)

(* C1 witness: a fractional estate of a family with a disabled member      *)
(* whose taxable amount was truncated to 5621.                             *)
C1_Witness ==
    /\ IsCall("calculate_estate_tax")
    /\ call.total_assets % 100 = 99
    /\ call.family.disabled_people > 0
    /\ call.ret.taxable_amount = 5621

(* C2: for every taxable amount T >= 0 the tax accumulated by the bracket  *)
(* walk, before rounding, equals the direct progressive formula: nothing   *)
(* taxed twice, nothing skipped, at the bracket bounds and next to them.   *)
C2_BracketContinuity ==
    IsCall("calculate_estate_tax") =>
        bracket_walk(call.ret.taxable_amount) = DirectTax(call.ret.taxable_amount)

(* C2 witness: a taxable amount one above the second bound, taxed in all   *)
(* three brackets.                                                         *)
C2_Witness ==
    /\ IsCall("calculate_estate_tax")
    /\ call.ret.taxable_amount = 11243
    /\ bracket_walk(call.ret.taxable_amount) = 562100 + 843150 + 200

(* C3 as claimed: tax_due is the accumulated tax rounded to two decimals   *)
(* or to the nearest integer; total_assets = 5000 with no family gives     *)
(* taxable_amount 3529 and tax_due 352.9 or 353.                           *)
C3_RoundingPolicy ==
    LET acc == bracket_walk(tax_result.taxable_amount)
    IN  /\ \/ tax_result.tax_due * 1000 = acc
           \/ tax_result.tax_due = PyRound(acc, 1000)
        /\ (/\ total_assets_input = 5000
            /\ ~has_spouse
            /\ adult_children_input = 0
            /\ parents_input = 0
            /\ disabled_people_input = 0
            /\ other_dependents_input = 0)
           => /\ tax_result.deductions = 138
              /\ tax_result.taxable_amount = 3529
              /\ acc = 352900
              /\ tax_result.tax_due * 1000 = 352900 \/ tax_result.tax_due = 353

(* C4: tax_due is non-decreasing in taxable_amount, and so in total_assets *)
(* with the family facts fixed.                                            *)
C4_Monotone ==
    IsCall("calculate_estate_tax") =>
        \A e2 \in EstatesFor(call.family) :
            LET r2 == calculate_estate_tax(e2, call.family.spouse_deduction,
                                           call.family.adult_children,
                                           call.family.other_dependents,
                                           call.family.disabled_people,
                                           call.family.parents)
            IN  /\ call.ret.taxable_amount <= r2.taxable_amount
                    => call.ret.tax_due <= r2.tax_due
                /\ call.total_assets <= e2 => call.ret.tax_due <= r2.tax_due

(* C4 witness: a call taxed in the second bracket, above a smaller estate  *)
(* of the same family that pays less.                                      *)
C4_Witness ==
    /\ IsCall("calculate_estate_tax")
    /\ call.ret.taxable_amount = 5622
    /\ \E e2 \in EstatesFor(call.family) :
          LET r2 == calculate_estate_tax(e2, call.family.spouse_deduction,
                                         call.family.adult_children,
                                         call.family.other_dependents,
                                         call.family.disabled_people,
                                         call.family.parents)
          IN  r2.taxable_amount > 0 /\ r2.tax_due < call.ret.tax_due

C6_DiversifiedZero ==
    IsCall("simulate_diversified_strategy") =>
        /\ call.ret.raised = "none"
        /\ call.tax_due = 0 =>
              /\ call.ret.value.guihua_xiaoguo.jiesheng_baifenbi = 0
              /\ call.ret.value.guihua_xiaoguo.jiao_zengjia = 0
              /\ call.ret.value.fensan_peizhi_hou.yugu_yichanshui = 0

(* C6 witness: the call with tax_due = 0 has returned *)
C6_Witness ==
    /\ IsCall("simulate_diversified_strategy")
    /\ call.tax_due = 0
    /\ call.ret.raised = "none"

(* tax_due of calculate_estate_tax on an estate of h hundredths of a wan,  *)
(* for the family of the call                                              *)
CallTaxH(h) ==
    calculate_estate_tax(h, call.family.spouse_deduction, call.family.adult_children,
                         call.family.other_dependents, call.family.disabled_people,
                         call.family.parents).tax_due

(* The nets and effects of simulate_insurance_strategy for a claim amount  *)
(* of c10 tenths of a wan, compared in tenths.                             *)
InsuranceAsStated(c10) ==
    LET ta == call.total_assets
        p == call.premium
        base == ta - CallTaxH(100 * ta)
        r == call.ret
    IN  /\ r.meiyou_guihua.jiaren_qude = base
        /\ r.meiyou_guihua.yugu_yichanshui = CallTaxH(100 * ta)
        /\ r.baodan_wei_keshui.yugu_yichanshui = CallTaxH(100 * (ta - p))
        /\ 10 * r.baodan_wei_keshui.jiaren_qude = 10 * (ta - p - CallTaxH(100 * (ta - p))) + c10
        /\ r.baodan_bei_keshui.yugu_yichanshui = CallTaxH(100 * (ta - p) + 10 * c10)
        /\ 10 * r.baodan_bei_keshui.jiaren_qude
              = 10 * (ta - p) + c10 - 10 * CallTaxH(100 * (ta - p) + 10 * c10)
        /\ r.baodan_wei_keshui.guihua_xiaoguo = r.baodan_wei_keshui.jiaren_qude - base
        /\ r.baodan_bei_keshui.guihua_xiaoguo = r.baodan_bei_keshui.jiaren_qude - base

C8_DisabledWithinCap ==
    LET cap == (IF has_spouse THEN 1 ELSE 0) + adult_children_input + parents_input
    IN  /\ disabled_people_input <= cap
        /\ tax_result.deductions
              <= spouse_deduction_of(has_spouse) + 138 + 693 * cap + 56 * adult_children_input
                 + 56 * other_dependents_input + 138 * parents_input

(* C8 witness: disabled persons entered up to a cap that spouse, children  *)
(* and parents all contribute to.                                          *)
C8_Witness ==
    /\ has_spouse
    /\ adult_children_input > 0
    /\ parents_input > 0
    /\ disabled_people_input = 1 + adult_children_input + parents_input
    /\ tax_result.deductions >= 693 * disabled_people_input

(* C9 as claimed: whichever strategy is selected, its result block renders *)
(* without error, every field read being a field the simulator returned.   *)
C9_EveryFieldReadIsReturned ==
    /\ rendered = "ok"
    /\ \A path \in render_reads(strategy) :
          path[1] \in DOMAIN strategy_results /\ path[2] \in DOMAIN strategy_results[path[1]]

(* C10 as claimed: in the gift strategy, for total_assets in 1000..100000  *)
(* and years in 1..10, simulated assets + total_gift = total_assets, so    *)
(* the heirs' net never exceeds total_assets and the effect never exceeds  *)
(* the no-plan tax.                                                        *)
C10_WealthConserved ==
    (/\ strategy = "zengyu_celue"
     /\ total_assets_input \in 1000..100000
     /\ years \in 1..10) =>
        LET after == strategy_results.tiqian_zengyu_hou
        IN  /\ after.zong_zichan + after.zong_zengyu_jine = total_assets_input
            /\ after.jiaren_qude <= total_assets_input
            /\ strategy_results.guihua_xiaoguo.jiao_zengjia
                  <= strategy_results.meiyou_guihua.yugu_yichanshui

====
